---- MODULE Spec2Model ----
(***************************************************************************)
(* Model of mcp-server.py: the profile knowledge base (PROFILE, SKILLS,    *)
(* SKILL_CATEGORIES), the ten tool handlers and the call_tool dispatcher.  *)
(*                                                                         *)
(* Python values are modelled as follows.                                  *)
(*   str            a TLA+ string; Len, SubSeq and \o act on its           *)
(*                  characters                                             *)
(*   list           a sequence                                             *)
(*   dict           an insertion-ordered sequence of [key, value] entries  *)
(*                  (Dict* operators), or a record when its keys are fixed *)
(*   request value  a tagged record [type, v]: type is the Python type     *)
(*                  name and v is str(value)                               *)
(*   json.dumps(x)  the document [json |-> x]; a plain text is             *)
(*                  [plain |-> s]                                          *)
(*   a call         an outcome record: the value returned, or the          *)
(*                  exception class and message raised                     *)
(*                                                                         *)
(* source holds the dict displays the module was loaded with.              *)
(*                                                                         *)
(* Line 38 of the source lacks the comma that separates the two entries of *)
(* PROFILE["contact"]; the model reads the display with the two keys that  *)
(* get_contact (lines 346-347) reads.                                      *)
(***************************************************************************)
EXTENDS Integers, Sequences, FiniteSets, TLC

VARIABLES source, PROFILE, SKILLS, SKILL_CATEGORIES, pc, request, response, invoked, escaped, prior

vars == <<source, PROFILE, SKILLS, SKILL_CATEGORIES, pc, request, response, invoked, escaped, prior>>

(***************************************************************************)
(* Bounds of the model.                                                    *)
(***************************************************************************)
\* Longest query drawn over QueryChars.
MaxQueryLen == 2

(***************************************************************************)
(* Python dict: insertion-ordered entries.                                 *)
(***************************************************************************)
DictHas(d, k) == \E i \in 1..Len(d) : d[i].key = k

DictGet(d, k) == d[CHOOSE i \in 1..Len(d) : d[i].key = k].value

DictKeys(d) == [i \in 1..Len(d) |-> d[i].key]

\* d[k] = v: an existing key keeps its position and takes the new value.
DictSet(d, k, v) ==
  IF DictHas(d, k)
  THEN [i \in 1..Len(d) |-> IF d[i].key = k THEN [key |-> k, value |-> v] ELSE d[i]]
  ELSE Append(d, [key |-> k, value |-> v])

\* A dict display {k1: v1, k2: v2, ...} stores its items left to right.
RECURSIVE DictDisplay(_)
DictDisplay(items) ==
  IF items = <<>> THEN <<>>
  ELSE LET n == Len(items)
       IN DictSet(DictDisplay(SubSeq(items, 1, n - 1)), items[n].key, items[n].value)

(***************************************************************************)
(* The data displays of the module.                                        *)
(***************************************************************************)
PROFILE_display ==
  [ name |-> "Madhavi K",
    education |-> [
        degree |-> "Masters",
        university |-> "Purdue University",
        field |-> "Computer Science / Engineering"
    ],
    contact |-> [
        linkedin |-> "https://linkedin.com/in/madhaviai",
        linkedin_username |-> "madhaviai"
    ],
    job_titles |-> <<
        "AI Systems Engineer",
        "Applied LLM Engineer",
        "Software Engineer, Agents",
        "Inference Platform Engineer"
    >>,
    summary |-> (
        "AI Systems Engineer with a Master's from Purdue University, specializing in " \o
        "building end-to-end LLM pipelines, agentic workflows, and scalable AI infrastructure. " \o
        "Expert in MCP development, cloud-native architectures, and production ML systems."
    )
  ]

SKILLS_display ==
  <<
    [key |-> "llm_systems_engineering", value |-> [
        name |-> "LLM Systems Engineering",
        description |-> (
            "Builds end-to-end LLM pipelines, agentic workflows, and context-optimized " \o
            "systems using advanced tokenization, retrieval, and orchestration patterns."
        ),
        keywords |-> <<"LLM", "pipelines", "agentic workflows", "tokenization", "RAG", "orchestration">>
    ]],
    [key |-> "agentic_automation", value |-> [
        name |-> "Agentic Automation",
        description |-> (
            "Designs autonomous, multi-step, self-correcting AI agents with tool-use, " \o
            "workflow chaining, and intelligent execution loops."
        ),
        keywords |-> <<"AI agents", "autonomous systems", "tool-use", "workflow chaining", "self-correcting">>
    ]],
    [key |-> "mcp_development", value |-> [
        name |-> "MCP Development",
        description |-> (
            "Creates scalable Model Context Protocol servers and automation frameworks " \o
            "for seamless AI tool integration across product ecosystems."
        ),
        keywords |-> <<"MCP", "Model Context Protocol", "tool integration", "automation frameworks">>
    ]],
    [key |-> "ai_infrastructure", value |-> [
        name |-> "AI Infrastructure Engineering",
        description |-> (
            "Architects cloud-native, high-performance AI systems leveraging Kubernetes, " \o
            "containers, networking, IaC, and distributed infra patterns."
        ),
        keywords |-> <<"Kubernetes", "containers", "IaC", "cloud-native", "distributed systems">>
    ]],
    [key |-> "machine_learning", value |-> [
        name |-> "Machine Learning Engineering",
        description |-> (
            "Develops robust ML models, anomaly detection systems, and data-driven pipelines " \o
            "with strong emphasis on model behavior, evaluation, and interpretability."
        ),
        keywords |-> <<"ML models", "anomaly detection", "model evaluation", "interpretability">>
    ]],
    [key |-> "backend_api", value |-> [
        name |-> "Backend & API Engineering",
        description |-> (
            "Builds scalable backend services, microservices, and automation APIs in Python, " \o
            "Go, Java, and TypeScript with clean, production-ready code."
        ),
        keywords |-> <<"Python", "Go", "Java", "TypeScript", "microservices", "APIs", "backend">>
    ]],
    [key |-> "cloud_platforms", value |-> [
        name |-> "Cloud Platforms (AWS, Azure, GCP)",
        description |-> (
            "Designs, deploys, and optimizes multi-cloud infrastructure with secure " \o
            "architecture, performance tuning, and cost-efficient scaling."
        ),
        keywords |-> <<"AWS", "Azure", "GCP", "multi-cloud", "infrastructure", "scaling">>
    ]],
    [key |-> "devops_cicd", value |-> [
        name |-> "DevOps & CI/CD",
        description |-> (
            "Implements automated build and deployment systems using Jenkins, GitLab, " \o
            "Azure DevOps, Spinnaker, and advanced Git workflows."
        ),
        keywords |-> <<"Jenkins", "GitLab", "Azure DevOps", "Spinnaker", "CI/CD", "automation">>
    ]],
    [key |-> "data_streaming", value |-> [
        name |-> "Data & Streaming Systems",
        description |-> (
            "Constructs large-scale data ingestion, ETL, search, and streaming pipelines " \o
            "using Kafka, Elasticsearch, Redis, PostgreSQL, and modern storage stacks."
        ),
        keywords |-> <<"Kafka", "Elasticsearch", "Redis", "PostgreSQL", "ETL", "streaming">>
    ]],
    [key |-> "security_threat_intel", value |-> [
        name |-> "Security & Threat Intelligence",
        description |-> (
            "Builds ML-powered threat detection, SIEM automation, and risk scoring systems " \o
            "with secure, enterprise-grade cloud architectures."
        ),
        keywords |-> <<"threat detection", "SIEM", "risk scoring", "security", "ML-powered">>
    ]],
    [key |-> "monitoring_observability", value |-> [
        name |-> "Monitoring & Observability",
        description |-> (
            "Implements full-stack monitoring, logging, and alerting using Prometheus, " \o
            "Grafana, Kibana, and Dynatrace for system reliability and traceability."
        ),
        keywords |-> <<"Prometheus", "Grafana", "Kibana", "Dynatrace", "monitoring", "observability">>
    ]],
    [key |-> "open_source", value |-> [
        name |-> "Open-Source Engineering",
        description |-> (
            "Contributes to developer tooling, Kubernetes ecosystems, and AI frameworks " \o
            "with high-quality code, documentation, and community-driven innovation."
        ),
        keywords |-> <<"open-source", "developer tooling", "Kubernetes", "AI frameworks">>
    ]],
    [key |-> "research_optimization", value |-> [
        name |-> "Research & Model Optimization",
        description |-> (
            "Performs research on tokenization, representation learning, model robustness, " \o
            "and data efficiency to enhance LLM interpretability and performance."
        ),
        keywords |-> <<"research", "tokenization", "representation learning", "model optimization">>
    ]]
  >>

SKILL_CATEGORIES_display ==
  <<
    [key |-> "ai_ml", value |-> <<"llm_systems_engineering", "agentic_automation", "mcp_development", "machine_learning", "research_optimization">>],
    [key |-> "infrastructure", value |-> <<"ai_infrastructure", "cloud_platforms", "devops_cicd">>],
    [key |-> "backend", value |-> <<"backend_api", "data_streaming">>],
    [key |-> "security_ops", value |-> <<"security_threat_intel", "monitoring_observability">>],
    [key |-> "community", value |-> <<"open_source">>]
  >>

(***************************************************************************)
(* Python str operations.                                                  *)
(***************************************************************************)
\* The cased characters that occur in the data and in the queries.
UPPERCASE == "ABCDEFGHIJKLMNOPQRSTUVWXYZ"

LOWERCASE == "abcdefghijklmnopqrstuvwxyz"

\* U+00DF has no single upper-case character: str.upper() maps it to "SS"
\* and str.lower() leaves it alone.
SHARP_S == "ß"

IndexIn(alphabet, c) == CHOOSE i \in 1..Len(alphabet) : SubSeq(alphabet, i, i) = c

IsIn(alphabet, c) == \E i \in 1..Len(alphabet) : SubSeq(alphabet, i, i) = c

\* str.lower() of one character.
lower_char(c) ==
  IF IsIn(UPPERCASE, c)
  THEN LET i == IndexIn(UPPERCASE, c) IN SubSeq(LOWERCASE, i, i)
  ELSE c

\* str.upper() of one character.
upper_char(c) ==
  IF IsIn(LOWERCASE, c)
  THEN LET i == IndexIn(LOWERCASE, c) IN SubSeq(UPPERCASE, i, i)
  ELSE IF c = SHARP_S THEN "SS"
  ELSE c

\* s.lower(): every character lower-cased, in order.
RECURSIVE lower(_)
lower(s) ==
  IF Len(s) = 0 THEN ""
  ELSE IF Len(s) = 1 THEN lower_char(s)
  ELSE LET h == Len(s) \div 2
       IN lower(SubSeq(s, 1, h)) \o lower(SubSeq(s, h + 1, Len(s)))

\* s.upper(): every character upper-cased, in order.
RECURSIVE upper(_)
upper(s) ==
  IF Len(s) = 0 THEN ""
  ELSE IF Len(s) = 1 THEN upper_char(s)
  ELSE LET h == Len(s) \div 2
       IN upper(SubSeq(s, 1, h)) \o upper(SubSeq(s, h + 1, Len(s)))

\* a in b, for two str.
str_in(a, b) ==
  \E i \in 1..(Len(b) - Len(a) + 1) : SubSeq(b, i, i + Len(a) - 1) = a

\* sep.join(list)
RECURSIVE join(_, _)
join(sep, list) ==
  IF Len(list) = 0 THEN ""
  ELSE IF Len(list) = 1 THEN list[1]
  ELSE join(sep, SubSeq(list, 1, Len(list) - 1)) \o sep \o list[Len(list)]

\* repr() of a str without quotes or backslashes in it.
str_repr(s) == "'" \o s \o "'"

\* str() of a list of str, as an f-string formats it.
list_str(list) == "[" \o join(", ", [i \in 1..Len(list) |-> str_repr(list[i])]) \o "]"

\* The ASCII characters of the data, in code point order.
ASCII == " &'(),-./0123456789:ABCDEFGHIJKLMNOPQRSTUVWXYZ_abcdefghijklmnopqrstuvwxyz"

RECURSIVE str_lt_from(_, _, _)
str_lt_from(a, b, i) ==
  IF i > Len(b) THEN FALSE
  ELSE IF i > Len(a) THEN TRUE
  ELSE LET ca == SubSeq(a, i, i)
           cb == SubSeq(b, i, i)
       IN IF ca = cb THEN str_lt_from(a, b, i + 1)
          ELSE IndexIn(ASCII, ca) < IndexIn(ASCII, cb)

\* a < b for two str: lexicographic by code point.
str_lt(a, b) == str_lt_from(a, b, 1)

\* sorted(list(s)) for a set s of str: each element at the place given by the
\* number of elements below it.
sorted(s) ==
  LET ranked == {<<Cardinality({y \in s : str_lt(y, x)}), x>> : x \in s}
  IN [i \in 1..Cardinality(s) |-> (CHOOSE p \in ranked : p[1] = i - 1)[2]]

(***************************************************************************)
(* Values of a request's argument record.                                  *)
(***************************************************************************)
StrVal(s) == [type |-> "str", v |-> s]

BoolVal(b) == [type |-> "bool", v |-> IF b THEN "True" ELSE "False"]

IntVal(text) == [type |-> "int", v |-> text]

EmptyList == [type |-> "list", v |-> "[]"]

None == [type |-> "NoneType", v |-> "None"]

\* bool(x), as an if statement takes it.
truthy(x) ==
  CASE x.type = "bool" -> x.v = "True"
    [] x.type = "str" -> x.v # ""
    [] x.type = "int" -> x.v # "0"
    [] x.type = "list" -> x.v # "[]"
    [] OTHER -> FALSE

\* Only the list among the modelled types is unhashable.
hashable(x) == x.type # "list"

\* str(x), as an f-string formats it.
str(x) == x.v

\* repr(x), as str(KeyError(x)) formats it.
repr(x) == IF x.type = "str" THEN str_repr(x.v) ELSE x.v

\* The argument record with no entries.
NoArguments == [k \in {} |-> None]

(***************************************************************************)
(* Outcomes of a call and the result envelope.                             *)
(***************************************************************************)
TextContent(text) == [type |-> "text", text |-> text]

CallToolResult(content) == [content |-> content]

\* json.dumps(obj, indent=2): the document of obj.
json_dumps(obj) == [json |-> obj]

\* A text that is not a JSON document.
plain(s) == [plain |-> s]

NoResult == CallToolResult(<<>>)

\* handler: the handler coroutine that ran ("" when none did).
Return(value) == [raised |-> FALSE, exc |-> "", msg |-> "", value |-> value, handler |-> ""]

Raise(exc, msg) == [raised |-> TRUE, exc |-> exc, msg |-> msg, value |-> NoResult, handler |-> ""]

\* The classes the handlers can raise; all derive from Exception.
ExceptionClasses == {"KeyError", "TypeError", "AttributeError"}

(***************************************************************************)
(* Tool handlers.  Each reads PROFILE, SKILLS and SKILL_CATEGORIES and      *)
(* returns a CallToolResult with one TextContent, or raises.               *)
(***************************************************************************)
JsonResult(result) == Return(CallToolResult(<<TextContent(json_dumps(result))>>))

TextResult(text) == Return(CallToolResult(<<TextContent(plain(text))>>))

get_profile ==
  LET result == [
        name |-> PROFILE.name,
        education |-> PROFILE.education,
        contact |-> PROFILE.contact,
        job_titles |-> PROFILE.job_titles,
        summary |-> PROFILE.summary,
        total_skills |-> Len(SKILLS),
        skill_categories |-> DictKeys(SKILL_CATEGORIES) ]
  IN JsonResult(result)

get_contact ==
  LET result == [
        name |-> PROFILE.name,
        linkedin |-> PROFILE.contact.linkedin,
        linkedin_username |-> PROFILE.contact.linkedin_username,
        connect_message |-> "Feel free to connect on LinkedIn to discuss AI, LLMs, and engineering!" ]
  IN JsonResult(result)

get_education ==
  LET result == [
        education |-> PROFILE.education,
        highlights |-> <<
            "Master's degree from " \o PROFILE.education.university,
            "Strong foundation in computer science and engineering principles",
            "Research experience in ML and AI systems" >> ]
  IN JsonResult(result)

get_job_titles ==
  LET result == [
        primary_titles |-> PROFILE.job_titles,
        alternative_titles |-> <<
            "ML Platform Engineer",
            "AI/ML Infrastructure Engineer",
            "Senior Software Engineer - AI",
            "LLM Operations Engineer",
            "AI Tooling Engineer" >> ]
  IN JsonResult(result)

\* (get_all_skills that adds the keywords whatever the flag)
get_all_skills_always_keywords(include_keywords) ==
  LET skill_info(skill_id, skill_data) ==
        [id |-> skill_id, name |-> skill_data.name,
         description |-> skill_data.description, keywords |-> skill_data.keywords]
      skills_list == [i \in 1..Len(SKILLS) |-> skill_info(SKILLS[i].key, SKILLS[i].value)]
      result == [total |-> Len(skills_list), skills |-> skills_list]
  IN JsonResult(result)

get_all_skills(include_keywords) ==
  LET skill_info(skill_id, skill_data) ==
        IF truthy(include_keywords)
        THEN [id |-> skill_id, name |-> skill_data.name,
              description |-> skill_data.description, keywords |-> skill_data.keywords]
        ELSE [id |-> skill_id, name |-> skill_data.name,
              description |-> skill_data.description]
      skills_list == [i \in 1..Len(SKILLS) |-> skill_info(SKILLS[i].key, SKILLS[i].value)]
      result == [total |-> Len(skills_list), skills |-> skills_list]
  IN JsonResult(result)

\* (get_skill that subscripts the store without the membership test)
get_skill_subscript(skill_id) ==
  IF ~hashable(skill_id)
  THEN Raise("TypeError", "unhashable type: '" \o skill_id.type \o "'")
  ELSE IF ~(skill_id.type = "str" /\ DictHas(SKILLS, skill_id.v))
  THEN Raise("KeyError", repr(skill_id))
  ELSE LET skill == DictGet(SKILLS, skill_id.v)
           result == [id |-> skill_id.v, name |-> skill.name,
                      description |-> skill.description, keywords |-> skill.keywords]
       IN JsonResult(result)

get_skill(skill_id) ==
  IF ~hashable(skill_id)
  THEN Raise("TypeError", "unhashable type: '" \o skill_id.type \o "'")
  ELSE IF ~(skill_id.type = "str" /\ DictHas(SKILLS, skill_id.v))
  THEN TextResult("Skill '" \o str(skill_id) \o "' not found. Available skills: "
                  \o list_str(DictKeys(SKILLS)))
  ELSE LET skill == DictGet(SKILLS, skill_id.v)
           result == [id |-> skill_id.v, name |-> skill.name,
                      description |-> skill.description, keywords |-> skill.keywords]
       IN JsonResult(result)

\* The entry of one skill in a category listing.
category_entry_with_keywords(skill_id, skill) ==
  [id |-> skill_id, name |-> skill.name, description |-> skill.description,
   keywords |-> skill.keywords]

category_entry(skill_id, skill) ==
  [id |-> skill_id, name |-> skill.name, description |-> skill.description]

category_names ==
  <<
    [key |-> "ai_ml", value |-> "AI & Machine Learning"],
    [key |-> "infrastructure", value |-> "Infrastructure & Cloud"],
    [key |-> "backend", value |-> "Backend & Data Systems"],
    [key |-> "security_ops", value |-> "Security & Operations"],
    [key |-> "community", value |-> "Community & Open Source"]
  >>

get_skills_by_category(category) ==
  IF ~hashable(category)
  THEN Raise("TypeError", "unhashable type: '" \o category.type \o "'")
  ELSE IF ~(category.type = "str" /\ DictHas(SKILL_CATEGORIES, category.v))
  THEN TextResult("Category '" \o str(category) \o "' not found. Available: "
                  \o list_str(DictKeys(SKILL_CATEGORIES)))
  ELSE LET skill_ids == DictGet(SKILL_CATEGORIES, category.v)
           missing == {i \in 1..Len(skill_ids) : ~DictHas(SKILLS, skill_ids[i])}
       IN IF missing # {}
          THEN \* SKILLS[skill_id] raises at the first id the store lacks
               LET first == CHOOSE i \in missing : \A j \in missing : i <= j
               IN Raise("KeyError", str_repr(skill_ids[first]))
          ELSE LET skills_list == [i \in 1..Len(skill_ids) |->
                     category_entry(skill_ids[i], DictGet(SKILLS, skill_ids[i]))]
                   result == [
                     category |-> category.v,
                     category_name |-> IF DictHas(category_names, category.v)
                                       THEN DictGet(category_names, category.v)
                                       ELSE category.v,
                     count |-> Len(skills_list),
                     skills |-> skills_list ]
               IN JsonResult(result)

\* (searchable without the description)
searchable_without_description(skill_data) ==
  lower(skill_data.name) \o " " \o
  lower(join(" ", skill_data.keywords))

\* The text search_skills searches for one skill.
searchable(skill_data) ==
  lower(skill_data.name) \o " " \o
  lower(skill_data.description) \o " " \o
  lower(join(" ", skill_data.keywords))

\* (query_lower without the call of lower)
query_lower_as_typed(query) == query

\* query_lower = query.lower()
query_lower(query) == lower(query)

\* (is_match that skips the empty query)
is_match_nonempty(lowered, skill_data) ==
  lowered # "" /\ str_in(lowered, searchable(skill_data))

\* if query_lower in searchable
is_match(lowered, skill_data) == str_in(lowered, searchable(skill_data))

\* (matching_keywords that compares the keyword as stored)
matching_keywords_as_stored(skill_data, lowered) ==
  SelectSeq(skill_data.keywords, LAMBDA k : str_in(lowered, k))

\* The keywords of one skill that contain the lower-cased query.
matching_keywords(skill_data, lowered) ==
  SelectSeq(skill_data.keywords, LAMBDA k : str_in(lowered, lower(k)))

search_skills(query) ==
  IF query.type # "str"
  THEN Raise("AttributeError", "'" \o query.type \o "' object has no attribute 'lower'")
  ELSE LET lowered == query_lower(query.v)
           hits == SelectSeq(SKILLS, LAMBDA e : is_match(lowered, e.value))
           matches == [i \in 1..Len(hits) |-> [
               id |-> hits[i].key,
               name |-> hits[i].value.name,
               description |-> hits[i].value.description,
               matching_keywords |-> matching_keywords(hits[i].value, lowered) ]]
           result == [query |-> query.v, matches |-> Len(matches), skills |-> matches]
       IN JsonResult(result)

get_summary ==
  LET result == [
        summary |-> PROFILE.summary,
        key_strengths |-> <<
            "End-to-end LLM pipeline development",
            "Agentic AI system design",
            "MCP server development",
            "Cloud-native AI infrastructure",
            "Production ML systems" >>,
        education |-> "Master's from " \o PROFILE.education.university ]
  IN JsonResult(result)

get_technologies ==
  LET all_keywords == UNION {{SKILLS[i].value.keywords[j] :
                                j \in 1..Len(SKILLS[i].value.keywords)} : i \in 1..Len(SKILLS)}
      languages == <<"Python", "Go", "Java", "TypeScript">>
      cloud == <<"AWS", "Azure", "GCP", "Kubernetes", "containers">>
      data == <<"Kafka", "Elasticsearch", "Redis", "PostgreSQL", "ETL", "streaming">>
      ai_ml == <<"LLM", "ML models", "RAG", "tokenization", "AI agents">>
      devops == <<"Jenkins", "GitLab", "Azure DevOps", "Spinnaker", "CI/CD">>
      monitoring == <<"Prometheus", "Grafana", "Kibana", "Dynatrace">>
      result == [
        languages |-> languages,
        cloud_platforms |-> cloud,
        data_technologies |-> data,
        ai_ml_technologies |-> ai_ml,
        devops_tools |-> devops,
        monitoring_tools |-> monitoring,
        all_keywords |-> sorted(all_keywords) ]
  IN JsonResult(result)

(***************************************************************************)
(* call_tool: the dispatcher.                                              *)
(***************************************************************************)
\* The handler coroutine named h ran and ended with outcome out.
Invoke(h, out) == [out EXCEPT !.handler = h]

\* arguments.get(key, default)
get(arguments, key, default) ==
  IF key \in DOMAIN arguments THEN arguments[key] ELSE default

\* (subscript that reads the argument with arguments.get(key))
subscript_get(arguments, key) == Return(get(arguments, key, None))

\* arguments[key]: the value, or KeyError(key).
subscript(arguments, key) ==
  IF key \in DOMAIN arguments
  THEN Return(arguments[key])
  ELSE Raise("KeyError", str_repr(key))

\* The body of the try statement.
try_body(name, arguments) ==
  IF name = "get_profile" THEN Invoke("get_profile", get_profile)
  ELSE IF name = "get_contact" THEN Invoke("get_contact", get_contact)
  ELSE IF name = "get_education" THEN Invoke("get_education", get_education)
  ELSE IF name = "get_job_titles" THEN Invoke("get_job_titles", get_job_titles)
  ELSE IF name = "get_all_skills"
    THEN Invoke("get_all_skills", get_all_skills(get(arguments, "include_keywords", BoolVal(FALSE))))
  ELSE IF name = "get_skill"
    THEN LET arg == subscript(arguments, "skill_id")
         IN IF arg.raised THEN arg ELSE Invoke("get_skill", get_skill(arg.value))
  ELSE IF name = "get_skills_by_category"
    THEN LET arg == subscript(arguments, "category")
         IN IF arg.raised THEN arg
            ELSE Invoke("get_skills_by_category", get_skills_by_category(arg.value))
  ELSE IF name = "search_skills"
    THEN LET arg == subscript(arguments, "query")
         IN IF arg.raised THEN arg ELSE Invoke("search_skills", search_skills(arg.value))
  ELSE IF name = "get_summary" THEN Invoke("get_summary", get_summary)
  ELSE IF name = "get_technologies" THEN Invoke("get_technologies", get_technologies)
  ELSE TextResult("Unknown tool: " \o name)

\* (except KeyError)
caught_KeyError(exc) == exc = "KeyError"

\* except Exception: the classes the clause catches.
caught(exc) == exc \in ExceptionClasses

\* The outcome of call_tool(name, arguments).
call_tool_outcome(name, arguments) ==
  LET out == try_body(name, arguments)
  IN IF out.raised /\ caught(out.exc)
     THEN [TextResult("Error executing " \o name \o ": " \o out.msg)
             EXCEPT !.handler = out.handler]
     ELSE out

(***************************************************************************)
(* Requests the transport delivers.                                        *)
(***************************************************************************)
ToolNames ==
  {"get_profile", "get_contact", "get_education", "get_job_titles", "get_all_skills",
   "get_skill", "get_skills_by_category", "search_skills", "get_summary", "get_technologies"}

\* Names outside the fixed set.
OtherNames == {"get_resume", "GET_SKILL", ""}

Names == ToolNames \cup OtherNames

\* Characters the enumerated queries are made of.
QueryChars == {"c", "t", "M", " ", SHARP_S}

RECURSIVE StringsUpTo(_)
StringsUpTo(n) ==
  IF n = 0 THEN {""}
  ELSE LET shorter == StringsUpTo(n - 1)
       IN shorter \cup {s \o c : s \in shorter, c \in QueryChars}

\* Queries of the tool's description and of the scenarios, one that spans the
\* end of a name and the start of a description, and one that matches nothing.
NamedQueries == {"mcp", "MCP", "Mcp", "Python", "Kubernetes", "LLM", "tool", "g b", "zzz"}

Queries == StringsUpTo(MaxQueryLen) \cup NamedQueries

RangeOf(list) == {list[i] : i \in 1..Len(list)}

SkillIdValues ==
  {StrVal(k) : k \in RangeOf(DictKeys(SKILLS_display))}
    \cup {StrVal("nonexistent"), StrVal("MCP_DEVELOPMENT"), StrVal(""), IntVal("7"), None, EmptyList}

CategoryValues ==
  {StrVal(k) : k \in RangeOf(DictKeys(SKILL_CATEGORIES_display))}
    \cup {StrVal("frontend"), StrVal("AI_ML"), StrVal(""), IntVal("0"), EmptyList}

QueryValues == {StrVal(q) : q \in Queries} \cup {IntVal("7"), None, EmptyList}

IncludeKeywordsValues == {BoolVal(TRUE), BoolVal(FALSE), StrVal(""), StrVal("yes"), IntVal("0"), IntVal("1"), None}

\* Argument records sent to every name.
CommonArguments ==
  { NoArguments,
    "skill_id" :> StrVal("mcp_development"),
    "category" :> StrVal("ai_ml"),
    "query" :> StrVal("mcp"),
    "include_keywords" :> BoolVal(TRUE),
    ("skill_id" :> StrVal("nonexistent")) @@ ("query" :> StrVal("MCP")) }

Requests ==
  {[name |-> n, arguments |-> a] : n \in Names, a \in CommonArguments}
    \cup {[name |-> "get_skill", arguments |-> "skill_id" :> v] : v \in SkillIdValues}
    \cup {[name |-> "get_skills_by_category", arguments |-> "category" :> v] : v \in CategoryValues}
    \cup {[name |-> "search_skills", arguments |-> "query" :> v] : v \in QueryValues}
    \cup {[name |-> "get_all_skills", arguments |-> "include_keywords" :> v] : v \in IncludeKeywordsValues}

NoRequest == [name |-> "", arguments |-> NoArguments]

(***************************************************************************)
(* The server.                                                             *)
(***************************************************************************)
\* The module has been imported and the server waits for a request.
Serving ==
  /\ pc = "idle"
  /\ request = NoRequest
  /\ response = NoResult
  /\ invoked = ""
  /\ escaped = FALSE
  /\ prior = NoResult

\* Importing the module evaluates the three displays and nothing else: no
\* statement of the module inspects the data it has built.
Import(displays) ==
  /\ source = displays
  /\ PROFILE = PROFILE_display
  /\ SKILLS = DictDisplay(displays.SKILLS)
  /\ SKILL_CATEGORIES = DictDisplay(displays.SKILL_CATEGORIES)
  /\ Serving

\* The displays of the module as it is.
ShippedSource == [SKILLS |-> SKILLS_display, SKILL_CATEGORIES |-> SKILL_CATEGORIES_display]

Init == Import(ShippedSource)

\* The transport hands a request to call_tool.
Deliver(name, arguments) ==
  /\ pc = "idle"
  /\ pc' = "pending"
  /\ request' = [name |-> name, arguments |-> arguments]
  /\ UNCHANGED <<source, PROFILE, SKILLS, SKILL_CATEGORIES, response, invoked, escaped, prior>>

\* (call_tool whose get_all_skills handler pops the keywords off the store)
call_tool_popping ==
  /\ pc = "pending"
  /\ LET out == call_tool_outcome(request.name, request.arguments)
     IN /\ response' = out.value
        /\ escaped' = out.raised
        /\ invoked' = out.handler
        /\ SKILLS' = IF out.handler = "get_all_skills"
                     THEN [i \in 1..Len(SKILLS) |->
                             [SKILLS[i] EXCEPT !.value.keywords = <<>>]]
                     ELSE SKILLS
  /\ pc' = "done"
  /\ UNCHANGED <<source, PROFILE, SKILL_CATEGORIES, request, prior>>

\* call_tool(name, arguments) runs to its end: no handler suspends.
call_tool ==
  /\ pc = "pending"
  /\ LET out == call_tool_outcome(request.name, request.arguments)
     IN /\ response' = out.value
        /\ escaped' = out.raised
        /\ invoked' = out.handler
  /\ pc' = "done"
  /\ UNCHANGED <<source, PROFILE, SKILLS, SKILL_CATEGORIES, request, prior>>

\* The client sends the request it has just been answered once more; prior
\* keeps the answer of the first call.
Redeliver ==
  /\ pc = "done"
  /\ ~escaped
  /\ prior = NoResult
  /\ pc' = "pending"
  /\ prior' = response
  /\ response' = NoResult
  /\ invoked' = ""
  /\ UNCHANGED <<source, PROFILE, SKILLS, SKILL_CATEGORIES, request, escaped>>

\* The transport forwards the result to the caller.
Reply ==
  /\ pc = "done"
  /\ pc' = "idle"
  /\ request' = NoRequest
  /\ response' = NoResult
  /\ invoked' = ""
  /\ escaped' = FALSE
  /\ prior' = NoResult
  /\ UNCHANGED <<source, PROFILE, SKILLS, SKILL_CATEGORIES>>

Next ==
  \/ \E r \in Requests : Deliver(r.name, r.arguments)
  \/ call_tool
  \/ Redeliver
  \/ Reply

Spec == Init /\ [][Next]_vars

(***************************************************************************)
(* The module loaded with edited displays: configurations with a defect.   *)
(***************************************************************************)
ExtraSkill(key, name) ==
  [key |-> key, value |-> [name |-> name, description |-> "Writes prompts.", keywords |-> <<"prompts">>]]

\* community lists an id the store lacks.
DanglingSource ==
  [SKILLS |-> SKILLS_display,
   SKILL_CATEGORIES |->
     [i \in 1..Len(SKILL_CATEGORIES_display) |->
        IF SKILL_CATEGORIES_display[i].key = "community"
        THEN [key |-> "community", value |-> <<"open_source", "prompt_engineering">>]
        ELSE SKILL_CATEGORIES_display[i]]]

\* Two records of the display share the identifier open_source.
DuplicateSource ==
  [SKILLS |-> Append(SKILLS_display, ExtraSkill("open_source", "Prompt Engineering")),
   SKILL_CATEGORIES |-> SKILL_CATEGORIES_display]

\* A record of the display has the empty identifier.
EmptyIdSource ==
  [SKILLS |-> Append(SKILLS_display, ExtraSkill("", "Prompt Engineering")),
   SKILL_CATEGORIES |-> SKILL_CATEGORIES_display]

Configurations == {ShippedSource, DanglingSource, DuplicateSource, EmptyIdSource}

InitConfig == \E displays \in Configurations : Import(displays)

SpecConfig == InitConfig /\ [][Next]_vars

(***************************************************************************)
(* Properties.                                                             *)
(***************************************************************************)
\* call_tool has returned for the request in hand.
Done == pc = "done"

\* The request carries argument key and its value is a str.
HasStr(key) == key \in DOMAIN request.arguments /\ request.arguments[key].type = "str"

\* The single text of the response.
Payload == response.content[1].text

IsJson == Len(response.content) = 1 /\ DOMAIN Payload = {"json"}

IsPlain == Len(response.content) = 1 /\ DOMAIN Payload = {"plain"}

\* The response is the plain text s.
Says(s) == IsPlain /\ Payload.plain = s

\* The argument each operation subscripts out of the argument record.
RequiredArgument ==
  ("get_skill" :> "skill_id") @@ ("get_skills_by_category" :> "category") @@ ("search_skills" :> "query")

\* The j-th smallest member of a set of indices.
Kth(indices, j) == CHOOSE i \in indices : Cardinality({x \in indices : x < i}) = j - 1

\* list is the sub-list of all that sits at the places in indices.
IsSelection(list, all, indices) ==
  /\ Len(list) = Cardinality(indices)
  /\ \A j \in 1..Len(list) : list[j] = all[Kth(indices, j)]

\* C1: when call_tool is invoked for get_skill, get_skills_by_category or
\* search_skills with an argument record that lacks the operation's required
\* argument, the call fails with a text that names the operation and the
\* missing argument, and no handler is invoked.
C1_MissingArgument ==
  (Done /\ request.name \in DOMAIN RequiredArgument
        /\ RequiredArgument[request.name] \notin DOMAIN request.arguments)
  => /\ invoked = ""
     /\ ~escaped
     /\ Says("Error executing " \o request.name \o ": '" \o RequiredArgument[request.name] \o "'")

\* A search_skills call whose argument record holds other arguments but no
\* query has returned.
C1_Witness ==
  /\ Done
  /\ request.name = "search_skills"
  /\ DOMAIN request.arguments = {"skill_id"}
  /\ Says("Error executing search_skills: 'query'")

\* C2: for every operation name and argument record call_tool returns an
\* envelope with exactly one text and lets no exception escape; a name outside
\* the fixed set yields "Unknown tool: {name}" and an exception raised under
\* the try statement yields "Error executing {name}: {message}".
C2_AlwaysEnvelope ==
  Done =>
    /\ ~escaped
    /\ Len(response.content) = 1
    /\ response.content[1].type = "text"
    /\ (request.name \notin ToolNames => Says("Unknown tool: " \o request.name) /\ invoked = "")
    /\ (request.name = "search_skills" /\ "query" \in DOMAIN request.arguments /\ ~HasStr("query")
          => Says("Error executing search_skills: '" \o request.arguments["query"].type
                  \o "' object has no attribute 'lower'"))
    /\ \A op \in {"get_skill", "get_skills_by_category"} :
         (request.name = op /\ RequiredArgument[op] \in DOMAIN request.arguments
            /\ request.arguments[RequiredArgument[op]].type = "list")
           => Says("Error executing " \o op \o ": unhashable type: 'list'")
    /\ LET out == try_body(request.name, request.arguments)
       IN out.raised => Says("Error executing " \o request.name \o ": " \o out.msg)

\* The search_skills handler raised on a query that is not a str and the
\* caller received the error text.
C2_Witness ==
  /\ Done
  /\ invoked = "search_skills"
  /\ Says("Error executing search_skills: 'int' object has no attribute 'lower'")

\* The records search_skills returned: their ids, in order.
ReturnedIds == [j \in 1..Len(Payload.json.skills) |-> Payload.json.skills[j].id]

\* A search for a str query has returned.
Searched == Done /\ request.name = "search_skills" /\ HasStr("query")

\* The lower-cased name, description and space-joined keywords of a record
\* put together with sep between them.
SearchText(skill, sep) ==
  lower(skill.name) \o sep \o lower(skill.description) \o sep \o lower(join(" ", skill.keywords))

\* The places of the store whose search text contains the lower-cased query.
Matching(q, sep) ==
  {i \in 1..Len(SKILLS) : str_in(lower(q), SearchText(SKILLS[i].value, sep))}

\* search(q) returns exactly the records selected by Matching(q, sep), in
\* store order, and counts them.
SearchReturns(sep) ==
  Searched =>
    /\ IsJson
    /\ IsSelection(ReturnedIds, DictKeys(SKILLS), Matching(request.arguments["query"].v, sep))
    /\ Payload.json.matches = Len(Payload.json.skills)

\* C3 as stated: search(q) returns r iff lower(q) is a substring of the
\* concatenation of r's lower-cased name, description and space-joined
\* keywords; results in store order, matches equal to their number.
C3_Concatenation == SearchReturns("")

\* C3 amended: the three parts are joined by single spaces.
C3_SpaceJoined == SearchReturns(" ")

\* A query that spans the end of a name and the start of a description has
\* returned the records it matches.
C3_Witness ==
  /\ Searched
  /\ request.arguments["query"].v = "g b"
  /\ ReturnedIds = <<"llm_systems_engineering", "backend_api">>

\* The store holds mcp_development with keywords MCP, Model Context Protocol,
\* tool integration, automation frameworks; search("mcp") includes that record
\* with matching_keywords equal to expected; and for every returned record
\* matching_keywords is the sub-list of its keywords, in original order and
\* casing, whose lower-cased form contains the lower-cased query.
MatchingKeywordsAre(expected) ==
  /\ DictHas(SKILLS, "mcp_development")
  /\ DictGet(SKILLS, "mcp_development").keywords
       = <<"MCP", "Model Context Protocol", "tool integration", "automation frameworks">>
  /\ Searched =>
       /\ IsJson
       /\ \A j \in 1..Len(Payload.json.skills) :
            LET entry == Payload.json.skills[j]
                keywords == DictGet(SKILLS, entry.id).keywords
                q == request.arguments["query"].v
            IN IsSelection(entry.matching_keywords, keywords,
                           {i \in 1..Len(keywords) : str_in(lower(q), lower(keywords[i]))})
       /\ request.arguments["query"].v = "mcp" =>
            \E j \in 1..Len(Payload.json.skills) :
              /\ Payload.json.skills[j].id = "mcp_development"
              /\ Payload.json.skills[j].matching_keywords = expected

\* C4 as stated: matching_keywords of mcp_development for "mcp" is exactly
\* MCP, Model Context Protocol.
C4_MatchingKeywords == MatchingKeywordsAre(<<"MCP", "Model Context Protocol">>)

\* C4 amended: matching_keywords of mcp_development for "mcp" is exactly MCP,
\* the one keyword whose lower-cased form contains "mcp".
C4_MatchingKeywordsMcp == MatchingKeywordsAre(<<"MCP">>)

\* search("mcp") has returned, mcp_development among its records.
C4_Witness ==
  /\ Searched
  /\ request.arguments["query"].v = "mcp"
  /\ IsJson
  /\ \E j \in 1..Len(ReturnedIds) : ReturnedIds[j] = "mcp_development"

\* get_skill has been asked for an id the store does not hold.
UnknownSkillAsked ==
  /\ Done
  /\ request.name = "get_skill"
  /\ "skill_id" \in DOMAIN request.arguments
  /\ hashable(request.arguments["skill_id"])
  /\ ~(HasStr("skill_id") /\ DictHas(SKILLS, request.arguments["skill_id"].v))

\* C5: for every skill id that is not a key of the store, get_skill returns
\* the not-found text that names the requested id and lists exactly the ids of
\* the store, and raises nothing.
C5_NotFound ==
  UnknownSkillAsked =>
    /\ invoked = "get_skill"
    /\ ~escaped
    /\ ~try_body(request.name, request.arguments).raised
    /\ Says("Skill '" \o request.arguments["skill_id"].v \o "' not found. Available skills: ['"
            \o join("', '", DictKeys(SKILLS)) \o "']")

\* get_skill("nonexistent") has returned.
C5_Witness ==
  /\ UnknownSkillAsked
  /\ request.arguments["skill_id"] = StrVal("nonexistent")
  /\ IsPlain

\* get_skills_by_category has been asked for a category of the index.
CategoryAsked ==
  /\ Done
  /\ request.name = "get_skills_by_category"
  /\ HasStr("category")
  /\ DictHas(SKILL_CATEGORIES, request.arguments["category"].v)

\* C6: for every category c of the index, get_skills_by_category(c) returns
\* count equal to the length of c's member list and skills whose ids are c's
\* member ids, each once and in the configured order, each entry holding only
\* id, name and description; ai_ml yields its 5 configured ids.
C6_ByCategory ==
  CategoryAsked =>
    LET c == request.arguments["category"].v
        members == DictGet(SKILL_CATEGORIES, c)
    IN /\ IsJson
       /\ Payload.json.category = c
       /\ Payload.json.count = Len(members)
       /\ ReturnedIds = members
       /\ \A j \in 1..Len(Payload.json.skills) :
            /\ DOMAIN Payload.json.skills[j] = {"id", "name", "description"}
            /\ Payload.json.skills[j].name = DictGet(SKILLS, members[j]).name
            /\ Payload.json.skills[j].description = DictGet(SKILLS, members[j]).description
       /\ c = "ai_ml" =>
            ReturnedIds = <<"llm_systems_engineering", "agentic_automation", "mcp_development",
                            "machine_learning", "research_optimization">>

\* get_skills_by_category("ai_ml") has returned its 5 skills.
C6_Witness ==
  /\ CategoryAsked
  /\ request.arguments["category"].v = "ai_ml"
  /\ IsJson
  /\ Payload.json.count = 5

\* The displays have a defect: a category lists an id the store lacks, two
\* records share an identifier, or a record has the empty identifier.
Defective(displays) ==
  \/ \E c \in 1..Len(displays.SKILL_CATEGORIES) :
       \E m \in 1..Len(displays.SKILL_CATEGORIES[c].value) :
         \A i \in 1..Len(displays.SKILLS) :
           displays.SKILLS[i].key # displays.SKILL_CATEGORIES[c].value[m]
  \/ \E i, j \in 1..Len(displays.SKILLS) : i # j /\ displays.SKILLS[i].key = displays.SKILLS[j].key
  \/ \E i \in 1..Len(displays.SKILLS) : displays.SKILLS[i].key = ""

\* C7: from a configuration with a defect construction aborts and no request
\* is ever served; the defect never surfaces as the error of a request.
C7_AbortsAtStartup ==
  Defective(source) => ~Done /\ response = NoResult

\* search(q), search(q.upper()) and search(q.lower()) return the same records
\* in the same order with the same matching_keywords, q being the query of the
\* search that has returned.
SameSearch ==
  LET q == request.arguments["query"].v
      up == search_skills(StrVal(upper(q))).value.content[1].text.json
      low == search_skills(StrVal(lower(q))).value.content[1].text.json
  IN /\ IsJson
     /\ Payload.json.skills = up.skills
     /\ Payload.json.skills = low.skills

\* C8 as stated: for every query string q, search(q), search(q.upper()) and
\* search(q.lower()) return the same records, in the same order, with the same
\* matching_keywords.
C8_CaseInsensitive == Searched => SameSearch

\* q consists of ASCII characters.
IsAscii(q) == ~str_in(SHARP_S, q)

\* C8 amended: the same for every query string q of ASCII characters.
C8_CaseInsensitiveAscii ==
  (Searched /\ IsAscii(request.arguments["query"].v)) => SameSearch

\* A search for a query with an upper-case letter has returned records.
C8_Witness ==
  /\ Searched
  /\ request.arguments["query"].v = "Mc"
  /\ IsJson
  /\ Len(Payload.json.skills) > 0

\* C9: search("") returns every record of the store, in store order, with
\* matches equal to the store size.
C9_EmptyQuery ==
  (Searched /\ request.arguments["query"].v = "") =>
    /\ IsJson
    /\ ReturnedIds = DictKeys(SKILLS)
    /\ Payload.json.matches = Len(SKILLS)
    /\ \A j \in 1..Len(SKILLS) :
         /\ Payload.json.skills[j].name = SKILLS[j].value.name
         /\ Payload.json.skills[j].description = SKILLS[j].value.description

\* search("") has returned the 13 records.
C9_Witness ==
  /\ Searched
  /\ request.arguments["query"].v = ""
  /\ IsJson
  /\ Len(Payload.json.skills) = 13

\* C10: no call changes SKILLS, SKILL_CATEGORIES or PROFILE, which stay equal
\* to their construction-time values, and a request sent again receives the
\* response it received before.
C10_ReadOnly ==
  [][ /\ SKILLS' = DictDisplay(SKILLS_display)
      /\ SKILL_CATEGORIES' = DictDisplay(SKILL_CATEGORIES_display)
      /\ PROFILE' = PROFILE_display
      /\ (pc = "pending" /\ prior # NoResult /\ pc' = "done")
           => (~escaped' /\ response' = prior) ]_vars

\* get_all_skills with keywords has been called a second time and has returned.
C10_Witness ==
  /\ Done
  /\ request.name = "get_all_skills"
  /\ request.arguments = ("include_keywords" :> BoolVal(TRUE))
  /\ prior # NoResult
  /\ response = prior

\* get_all_skills has returned.
ListedAll == Done /\ request.name = "get_all_skills"

\* The request carries include_keywords with the boolean value b.
IncludeKeywordsIs(b) ==
  /\ "include_keywords" \in DOMAIN request.arguments
  /\ request.arguments["include_keywords"] = BoolVal(b)

\* C11: get_all_skills returns every record in store order with total equal
\* to the store size; when include_keywords is false or absent no entry has a
\* keywords field, and when it is true every entry's keywords is the store's
\* keyword list of that record, in original order.
C11_ListAll ==
  ListedAll =>
    /\ IsJson
    /\ ReturnedIds = DictKeys(SKILLS)
    /\ Payload.json.total = Len(SKILLS)
    /\ \A j \in 1..Len(Payload.json.skills) :
         /\ Payload.json.skills[j].name = SKILLS[j].value.name
         /\ Payload.json.skills[j].description = SKILLS[j].value.description
    /\ ("include_keywords" \notin DOMAIN request.arguments \/ IncludeKeywordsIs(FALSE))
         => \A j \in 1..Len(Payload.json.skills) :
              DOMAIN Payload.json.skills[j] = {"id", "name", "description"}
    /\ IncludeKeywordsIs(TRUE)
         => \A j \in 1..Len(Payload.json.skills) :
              /\ DOMAIN Payload.json.skills[j] = {"id", "name", "description", "keywords"}
              /\ Payload.json.skills[j].keywords = SKILLS[j].value.keywords

\* get_all_skills without include_keywords has returned the 13 records, none
\* with a keywords field.
C11_Witness ==
  /\ ListedAll
  /\ request.arguments = NoArguments
  /\ IsJson
  /\ Payload.json.total = 13
  /\ "keywords" \notin DOMAIN Payload.json.skills[1]

====
